---- MODULE Spec2Model ----
(***************************************************************************)
(* Job Portal Skills API (src/main.py): the API-key gate, the position     *)
(* resolver, the suggestion engine and the category views, as a state      *)
(* machine that starts the service and then serves one request at a time.  *)
(*                                                                         *)
(* A Python str is a sequence of one-character strings, so that lower(),   *)
(* strip(), split(",") and the substring test `in` are computed.  An       *)
(* Optional[str] is a record [present, value].                             *)
(***************************************************************************)
EXTENDS Integers, Sequences, FiniteSets

\* ------------------------------------------------------------------ bounds
MaxEnvLen == 3        \* longest API_KEYS configuration string
MaxCredLen == 1       \* longest presented X-API-Key value
MaxStrLen == 2        \* longest raw position / query string
MaxKeys == 2          \* most entries of job_skills
MaxPositions == 12    \* most entries of common_positions

\* ----------------------------------------------------------------- strings
Absent == [present |-> FALSE, value |-> <<>>]
Some(s) == [present |-> TRUE, value |-> s]

Strings(chars, n) == UNION {[1..k -> chars] : k \in 0..n}

Whitespace == {" ", "\t", "\n", "\r"}

UpperCase == <<"A","B","C","D","E","F","G","H","I","J","K","L","M",
               "N","O","P","Q","R","S","T","U","V","W","X","Y","Z">>
LowerCase == <<"a","b","c","d","e","f","g","h","i","j","k","l","m",
               "n","o","p","q","r","s","t","u","v","w","x","y","z">>

\* str.lower() on one character
LowerChar(c) ==
  IF \E i \in 1..Len(UpperCase) : UpperCase[i] = c
  THEN LowerCase[CHOOSE i \in 1..Len(UpperCase) : UpperCase[i] = c]
  ELSE c

\* str.lower()
Lower(s) == [i \in 1..Len(s) |-> LowerChar(s[i])]

\* str.strip(): whitespace removed from both ends
RECURSIVE LStrip(_)
LStrip(s) ==
  IF s # <<>> /\ Head(s) \in Whitespace THEN LStrip(Tail(s)) ELSE s

RECURSIVE RStrip(_)
RStrip(s) ==
  IF s # <<>> /\ s[Len(s)] \in Whitespace
  THEN RStrip(SubSeq(s, 1, Len(s) - 1))
  ELSE s

StripNone(s) == s

Strip(s) == RStrip(LStrip(s))

\* the Python test `s in t` on two str values
IsSubstring(s, t) ==
  \E i \in 0..(Len(t) - Len(s)) : SubSeq(t, i + 1, i + Len(s)) = s

\* str.split(","): the segments between commas, empty ones kept
RECURSIVE SplitFrom(_, _, _)
SplitFrom(s, i, cur) ==
  IF i > Len(s) THEN <<cur>>
  ELSE IF s[i] = "," THEN <<cur>> \o SplitFrom(s, i + 1, <<>>)
  ELSE SplitFrom(s, i + 1, Append(cur, s[i]))

SplitComma(s) == SplitFrom(s, 1, <<>>)

\* ----------------------------------------------------------- configuration
\* set(key.strip() for key in api_keys_env.split(",") if key.strip())
ParseApiKeys(s) ==
  LET parts == SplitComma(s)
  IN  {Strip(parts[i]) : i \in {j \in 1..Len(parts) : Strip(parts[j]) # <<>>}}

\* `if not api_keys_env: raise ValueError(...)`
ConfigMissing(env) == ~env.present \/ env.value = <<>>

\* -------------------------------------------------------------- API-key gate
InvalidKeyDetail ==
  "Invalid or missing API Key. Please provide a valid API key in the X-API-Key header."

NotAuthenticatedDetail == "Not authenticated"

\* The status of the error APIKeyHeader(auto_error=True) raises depends on the
\* installed FastAPI release: 403 before 0.122, 401 from it on.
AutoErrorStatuses == {401, 403}

\* APIKeyHeader(name="X-API-Key", auto_error=True): header absent or empty -> error
api_key_header(header) ==
  IF ~header.present \/ header.value = <<>>
  THEN [ok |-> FALSE, api_key |-> <<>>]
  ELSE [ok |-> TRUE, api_key |-> header.value]

verify_api_key_nocase(api_key, keys) ==
  api_key.present /\ \E k \in keys : Lower(k) = Lower(api_key.value)

\* verify_api_key: TRUE when it returns the key, FALSE when it raises the 401
verify_api_key(api_key, keys) ==
  api_key.present /\ api_key.value \in keys

\* ------------------------------------------------------------- catalog data
\* dict lookups on job_skills, an insertion-ordered dict kept as a sequence
\* of [key, skills] entries with distinct keys
HasKey(d, k) == \E i \in 1..Len(d) : d[i].key = k

Get(d, k) == d[CHOOSE i \in 1..Len(d) : d[i].key = k].skills

Min(a, b) == IF a < b THEN a ELSE b

\* --------------------------------------------------------------- responses
Detail(text, arg) == [text |-> text, arg |-> arg]

Reply(status, handler, detail, body) ==
  [status |-> status, handler |-> handler, detail |-> detail, body |-> body]

NoBody == [kind |-> "none"]

OkReply(handler, body) == Reply(200, handler, Detail("", <<>>), body)

NotAuthenticated(status) ==
  Reply(status, "none", Detail(NotAuthenticatedDetail, <<>>), NoBody)

Unauthorized == Reply(401, "none", Detail(InvalidKeyDetail, <<>>), NoBody)

ValidationError == Reply(422, "none", Detail("validation error", <<>>), NoBody)

\* ------------------------------------------------------- position resolver
SuggestionLimit == 10

\* the index of the first entry, from i on, whose key contains n or is
\* contained in n; 0 when there is none (the for loop over job_skills.items())
RECURSIVE PartialMatchLast(_, _, _)
PartialMatchLast(d, n, i) ==
  IF i > Len(d) THEN 0
  ELSE LET rest == PartialMatchLast(d, n, i + 1)
       IN  IF rest # 0 THEN rest
           ELSE IF IsSubstring(n, d[i].key) \/ IsSubstring(d[i].key, n) THEN i
           ELSE 0

RECURSIVE PartialMatch(_, _, _)
PartialMatch(d, n, i) ==
  IF i > Len(d) THEN 0
  ELSE IF IsSubstring(n, d[i].key) \/ IsSubstring(d[i].key, n) THEN i
  ELSE PartialMatch(d, n, i + 1)

SkillsBody(position, skills) ==
  [skills |-> skills, position |-> position, skills_count |-> Len(skills)]

NotFound(position) ==
  Reply(404, "get_skills_for_position",
        Detail("No skills found for position: {position}. Try /api/positions to see available positions.",
               position),
        NoBody)

get_skills_for_position_partial_only(position, d) ==
  LET n == Strip(Lower(position))
      m == PartialMatch(d, n, 1)
  IN  IF m # 0
      THEN OkReply("get_skills_for_position", SkillsBody(position, d[m].skills))
      ELSE NotFound(position)

get_skills_for_position(position, d) ==
  LET normalized_position == Strip(Lower(position))
  IN  IF HasKey(d, normalized_position)
      THEN OkReply("get_skills_for_position",
                   SkillsBody(position, Get(d, normalized_position)))
      ELSE LET m == PartialMatch(d, normalized_position, 1)
           IN  IF m # 0
               THEN OkReply("get_skills_for_position",
                            SkillsBody(position, d[m].skills))
               ELSE NotFound(position)

\* ------------------------------------------------------- suggestion engine
SuggestionsBody(suggestions, q) == [suggestions |-> suggestions, query |-> q]

Matching(q, positions) ==
  LET lower_query == Lower(q)
      Hit(position) == IsSubstring(lower_query, Lower(position))
  IN  SelectSeq(positions, Hit)

get_position_suggestions_no_limit(q, positions) ==
  OkReply("get_position_suggestions",
          SuggestionsBody(IF Strip(q) = <<>> THEN <<>> ELSE Matching(q, positions), q))

get_position_suggestions_no_blank_check(q, positions) ==
  OkReply("get_position_suggestions",
          SuggestionsBody(SubSeq(Matching(q, positions), 1,
                                 Min(SuggestionLimit, Len(Matching(q, positions)))), q))

get_position_suggestions(q, positions) ==
  IF Strip(q) = <<>>
  THEN OkReply("get_position_suggestions", SuggestionsBody(<<>>, q))
  ELSE LET matches == Matching(q, positions)
       IN  OkReply("get_position_suggestions",
                   SuggestionsBody(SubSeq(matches, 1, Min(SuggestionLimit, Len(matches))), q))

\* q: str = Query(..., min_length=1): a missing or empty q is rejected before
\* the handler body runs
QueryValid(q) == q.present /\ Len(q.value) >= 1

\* ------------------------------------------------------------ category index
\* get_job_categories: the display names, as written in the handler
categories_display ==
  <<
    [positions |-> <<
       <<"S","o","f","t","w","a","r","e"," ","D","e","v","e","l","o","p","e","r">>,
       <<"S","o","f","t","w","a","r","e"," ","E","n","g","i","n","e","e","r">>,
       <<"F","u","l","l"," ","S","t","a","c","k"," ","D","e","v","e","l","o","p","e","r">>,
       <<"F","r","o","n","t","e","n","d"," ","D","e","v","e","l","o","p","e","r">>,
       <<"B","a","c","k","e","n","d"," ","D","e","v","e","l","o","p","e","r">>,
       <<"M","o","b","i","l","e"," ","D","e","v","e","l","o","p","e","r">>
     >>, category |-> "Software Development"],
    [positions |-> <<
       <<"D","a","t","a"," ","S","c","i","e","n","t","i","s","t">>,
       <<"D","a","t","a"," ","A","n","a","l","y","s","t">>,
       <<"D","a","t","a"," ","E","n","g","i","n","e","e","r">>,
       <<"M","a","c","h","i","n","e"," ","L","e","a","r","n","i","n","g"," ","E","n","g","i","n","e","e","r">>,
       <<"A","I"," ","E","n","g","i","n","e","e","r">>
     >>, category |-> "Data & AI"],
    [positions |-> <<
       <<"D","e","v","O","p","s"," ","E","n","g","i","n","e","e","r">>,
       <<"C","l","o","u","d"," ","E","n","g","i","n","e","e","r">>,
       <<"S","y","s","t","e","m"," ","A","d","m","i","n","i","s","t","r","a","t","o","r">>,
       <<"N","e","t","w","o","r","k"," ","E","n","g","i","n","e","e","r">>,
       <<"D","a","t","a","b","a","s","e"," ","A","d","m","i","n","i","s","t","r","a","t","o","r">>
     >>, category |-> "DevOps & Cloud"],
    [positions |-> <<
       <<"U","I","/","U","X"," ","D","e","s","i","g","n","e","r">>,
       <<"G","r","a","p","h","i","c"," ","D","e","s","i","g","n","e","r">>,
       <<"W","e","b"," ","D","e","s","i","g","n","e","r">>
     >>, category |-> "Design"],
    [positions |-> <<
       <<"P","r","o","d","u","c","t"," ","M","a","n","a","g","e","r">>,
       <<"P","r","o","j","e","c","t"," ","M","a","n","a","g","e","r">>,
       <<"S","c","r","u","m"," ","M","a","s","t","e","r">>
     >>, category |-> "Management"],
    [positions |-> <<
       <<"Q","u","a","l","i","t","y"," ","A","s","s","u","r","a","n","c","e"," ","E","n","g","i","n","e","e","r">>,
       <<"Q","A"," ","T","e","s","t","e","r">>
     >>, category |-> "Quality Assurance"],
    [positions |-> <<
       <<"S","e","c","u","r","i","t","y"," ","E","n","g","i","n","e","e","r">>
     >>, category |-> "Security"],
    [positions |-> <<
       <<"B","u","s","i","n","e","s","s"," ","A","n","a","l","y","s","t">>,
       <<"M","a","r","k","e","t","i","n","g"," ","M","a","n","a","g","e","r">>,
       <<"S","a","l","e","s"," ","M","a","n","a","g","e","r">>,
       <<"C","u","s","t","o","m","e","r"," ","S","u","c","c","e","s","s"," ","M","a","n","a","g","e","r">>,
       <<"H","R"," ","M","a","n","a","g","e","r">>,
       <<"F","i","n","a","n","c","i","a","l"," ","A","n","a","l","y","s","t">>,
       <<"A","c","c","o","u","n","t","a","n","t">>
     >>, category |-> "Business"],
    [positions |-> <<
       <<"T","e","c","h","n","i","c","a","l"," ","W","r","i","t","e","r">>,
       <<"C","o","n","t","e","n","t"," ","W","r","i","t","e","r">>,
       <<"S","E","O"," ","S","p","e","c","i","a","l","i","s","t">>,
       <<"D","i","g","i","t","a","l"," ","M","a","r","k","e","t","i","n","g"," ","S","p","e","c","i","a","l","i","s","t">>
     >>, category |-> "Content & Marketing"]
  >>
get_job_categories ==
  OkReply("get_job_categories", [kind |-> "categories", list |-> categories_display])

\* get_all_jobs_with_skills: the empty dict per category the handler starts from
all_jobs_categories ==
  <<"Software Development", "Data & AI", "DevOps & Cloud", "Design", "Management",
    "Quality Assurance", "Security", "Business", "Content & Marketing">>

\* get_all_jobs_with_skills: category -> normalized position names
category_mapping ==
  <<
    [positions |-> <<
       <<"s","o","f","t","w","a","r","e"," ","d","e","v","e","l","o","p","e","r">>,
       <<"s","o","f","t","w","a","r","e"," ","e","n","g","i","n","e","e","r">>,
       <<"f","u","l","l"," ","s","t","a","c","k"," ","d","e","v","e","l","o","p","e","r">>,
       <<"f","r","o","n","t","e","n","d"," ","d","e","v","e","l","o","p","e","r">>,
       <<"b","a","c","k","e","n","d"," ","d","e","v","e","l","o","p","e","r">>,
       <<"m","o","b","i","l","e"," ","d","e","v","e","l","o","p","e","r">>
     >>, category |-> "Software Development"],
    [positions |-> <<
       <<"d","a","t","a"," ","s","c","i","e","n","t","i","s","t">>,
       <<"d","a","t","a"," ","a","n","a","l","y","s","t">>,
       <<"d","a","t","a"," ","e","n","g","i","n","e","e","r">>,
       <<"m","a","c","h","i","n","e"," ","l","e","a","r","n","i","n","g"," ","e","n","g","i","n","e","e","r">>,
       <<"a","i"," ","e","n","g","i","n","e","e","r">>
     >>, category |-> "Data & AI"],
    [positions |-> <<
       <<"d","e","v","o","p","s"," ","e","n","g","i","n","e","e","r">>,
       <<"c","l","o","u","d"," ","e","n","g","i","n","e","e","r">>,
       <<"s","y","s","t","e","m"," ","a","d","m","i","n","i","s","t","r","a","t","o","r">>,
       <<"n","e","t","w","o","r","k"," ","e","n","g","i","n","e","e","r">>,
       <<"d","a","t","a","b","a","s","e"," ","a","d","m","i","n","i","s","t","r","a","t","o","r">>
     >>, category |-> "DevOps & Cloud"],
    [positions |-> <<
       <<"u","i","/","u","x"," ","d","e","s","i","g","n","e","r">>,
       <<"g","r","a","p","h","i","c"," ","d","e","s","i","g","n","e","r">>,
       <<"w","e","b"," ","d","e","s","i","g","n","e","r">>
     >>, category |-> "Design"],
    [positions |-> <<
       <<"p","r","o","d","u","c","t"," ","m","a","n","a","g","e","r">>,
       <<"p","r","o","j","e","c","t"," ","m","a","n","a","g","e","r">>,
       <<"s","c","r","u","m"," ","m","a","s","t","e","r">>
     >>, category |-> "Management"],
    [positions |-> <<
       <<"q","u","a","l","i","t","y"," ","a","s","s","u","r","a","n","c","e"," ","e","n","g","i","n","e","e","r">>,
       <<"q","a"," ","t","e","s","t","e","r">>,
       <<"q","a"," ","e","n","g","i","n","e","e","r">>
     >>, category |-> "Quality Assurance"],
    [positions |-> <<
       <<"s","e","c","u","r","i","t","y"," ","e","n","g","i","n","e","e","r">>
     >>, category |-> "Security"],
    [positions |-> <<
       <<"b","u","s","i","n","e","s","s"," ","a","n","a","l","y","s","t">>,
       <<"m","a","r","k","e","t","i","n","g"," ","m","a","n","a","g","e","r">>,
       <<"s","a","l","e","s"," ","m","a","n","a","g","e","r">>,
       <<"c","u","s","t","o","m","e","r"," ","s","u","c","c","e","s","s"," ","m","a","n","a","g","e","r">>,
       <<"h","r"," ","m","a","n","a","g","e","r">>,
       <<"f","i","n","a","n","c","i","a","l"," ","a","n","a","l","y","s","t">>,
       <<"a","c","c","o","u","n","t","a","n","t">>
     >>, category |-> "Business"],
    [positions |-> <<
       <<"t","e","c","h","n","i","c","a","l"," ","w","r","i","t","e","r">>,
       <<"c","o","n","t","e","n","t"," ","w","r","i","t","e","r">>,
       <<"s","e","o"," ","s","p","e","c","i","a","l","i","s","t">>,
       <<"d","i","g","i","t","a","l"," ","m","a","r","k","e","t","i","n","g"," ","s","p","e","c","i","a","l","i","s","t">>
     >>, category |-> "Content & Marketing"]
  >>
\* categories[category][position] = value on an insertion-ordered dict
DictSet(entries, position, value) ==
  IF \E i \in 1..Len(entries) : entries[i].position = position
  THEN [i \in 1..Len(entries) |->
          IF entries[i].position = position
          THEN [skills |-> value, position |-> position]
          ELSE entries[i]]
  ELSE Append(entries, [skills |-> value, position |-> position])

\* the inner loop: `if position in job_skills: categories[category][position] = ...`
RECURSIVE AddPositionsUnchecked(_, _, _, _)
AddPositionsUnchecked(entries, positions, i, d) ==
  IF i > Len(positions) THEN entries
  ELSE AddPositionsUnchecked(
         DictSet(entries, positions[i],
                 IF HasKey(d, positions[i]) THEN Get(d, positions[i]) ELSE <<>>),
         positions, i + 1, d)

RECURSIVE AddPositions(_, _, _, _)
AddPositions(entries, positions, i, d) ==
  IF i > Len(positions) THEN entries
  ELSE AddPositions(
         IF HasKey(d, positions[i])
         THEN DictSet(entries, positions[i], Get(d, positions[i]))
         ELSE entries,
         positions, i + 1, d)

\* the outer loop over category_mapping.items(), into the dict of the same name
RECURSIVE FillCategory(_, _, _, _)
FillCategory(entries, category, j, d) ==
  IF j > Len(category_mapping) THEN entries
  ELSE FillCategory(
         IF category_mapping[j].category = category
         THEN AddPositions(entries, category_mapping[j].positions, 1, d)
         ELSE entries,
         category, j + 1, d)

get_all_jobs_with_skills(d) ==
  OkReply("get_all_jobs_with_skills",
          [kind |-> "all-jobs",
           categories |->
             [c \in 1..Len(all_jobs_categories) |->
                [category |-> all_jobs_categories[c],
                 entries |-> FillCategory(<<>>, all_jobs_categories[c], 1, d)]],
           total_positions |-> Len(d)])

\* ------------------------------------------------------ the other handlers
root == OkReply("root", [kind |-> "banner"])

health_check == OkReply("health_check", [kind |-> "health"])

get_documentation == OkReply("get_documentation", [kind |-> "swagger-ui"])

get_redoc_documentation == OkReply("get_redoc_documentation", [kind |-> "redoc"])

get_open_api_endpoint == OkReply("get_open_api_endpoint", [kind |-> "openapi"])

get_all_positions(positions) ==
  OkReply("get_all_positions",
          [kind |-> "positions", positions |-> positions, total_count |-> Len(positions)])

\* ------------------------------------------------------- request pipeline
\* Security(verify_api_key) on a route: the header is extracted, then checked,
\* and only then does the route's own work (validation, handler body) run
SecuredUnchecked(header, autoStatus, keys, reply) == reply

Secured(header, autoStatus, keys, reply) ==
  LET h == api_key_header(header)
  IN  IF ~h.ok THEN NotAuthenticated(autoStatus)
      ELSE IF ~verify_api_key(Some(h.api_key), keys) THEN Unauthorized
      ELSE reply

\* -------------------------------------------------------------------- state
VARIABLES
  pc,                \* "boot", "failed" (import raised), "idle", "served"
  api_keys_env,      \* os.getenv("API_KEYS")
  VALID_API_KEYS,    \* the set built at import
  job_skills,        \* skills_data.job_skills
  common_positions,  \* skills_data.common_positions
  request,           \* the request being answered
  response           \* its response

vars == <<pc, api_keys_env, VALID_API_KEYS, job_skills, common_positions,
          request, response>>

\* ------------------------------------------------------------------- inputs
EnvChars == {"a", "A", ",", " "}
CredChars == {"a", "A"}
InputChars == {"a", "A", " "}

Envs == {Absent} \cup {Some(s) : s \in Strings(EnvChars, MaxEnvLen)}
SampleEnvs == {Absent, Some(<<"a">>)}
Headers == {Absent} \cup {Some(s) : s \in Strings(CredChars, MaxCredLen)}
\* a path parameter is never empty
Positions == Strings(InputChars, MaxStrLen) \ {<<>>}
Queries == {Absent} \cup {Some(s) : s \in Strings(InputChars, MaxStrLen)}

\* entries a skills catalog is assembled from: lowercase, trimmed keys
SkillEntries ==
  << [key |-> <<>>, skills |-> <<"Communication">>],
     [key |-> <<"a">>, skills |-> <<"Python", "SQL">>],
     [key |-> <<"a","a">>, skills |-> <<"SQL">>],
     [key |-> <<"a"," ","a">>, skills |-> <<>>],
     [key |-> <<"q","a"," ","t","e","s","t","e","r">>,
      skills |-> <<"Selenium", "Jira", "Selenium">>],
     [key |-> <<"q","a"," ","e","n","g","i","n","e","e","r">>,
      skills |-> <<"Cypress">>] >>

InjectiveSeqs(n, m) ==
  {s \in UNION {[1..k -> 1..n] : k \in 0..m} :
     \A i, j \in 1..Len(s) : i # j => s[i] # s[j]}

JobSkillsCatalogs ==
  {[i \in 1..Len(ix) |-> SkillEntries[ix[i]]] :
     ix \in InjectiveSeqs(Len(SkillEntries), MaxKeys)}

SampleJobSkills == <<SkillEntries[3], SkillEntries[5], SkillEntries[2]>>

\* canonical position names a position list is assembled from
PositionNames ==
  << <<"A">>, <<"A","a">>,
     <<"U","I","/","U","X"," ","D","e","s","i","g","n","e","r">>,
     <<"A"," ","a">>, <<"A","A">>,
     <<"Q","A"," ","T","e","s","t","e","r">>,
     <<"A","a"," ","A">>, <<"a">>,
     <<"H","R"," ","M","a","n","a","g","e","r">>,
     <<"A"," ","A">>, <<"a","A">>, <<"A","a","a">>,
     <<"A","a"," ","A","a">>, <<"A","A","a">> >>

Strides == {1, 3}

\* the n names met from PositionNames[start] on, every stride-th, cyclically
Window(start, n, stride) ==
  [i \in 1..n |->
     PositionNames[((start - 1 + (i - 1) * stride) % Len(PositionNames)) + 1]]

PositionCatalogs ==
  {Window(start, n, stride) :
     start \in 1..Len(PositionNames), n \in 0..MaxPositions, stride \in Strides}

SampleCommonPositions == Window(1, 4, 1)

\* ---------------------------------------------------------------- requests
Request(endpoint, header, position, q) ==
  [header |-> header, position |-> position, q |-> q, endpoint |-> endpoint]

NoRequest == Request("", Absent, <<>>, Absent)
NoReply == Reply(0, "none", Detail("", <<>>), NoBody)

Boot(envs, skillCatalogs, positionCatalogs) ==
  /\ pc = "boot"
  /\ api_keys_env \in envs
  /\ VALID_API_KEYS = {}
  /\ job_skills \in skillCatalogs
  /\ common_positions \in positionCatalogs
  /\ request = NoRequest
  /\ response = NoReply

Init == Boot(Envs, {SampleJobSkills}, {SampleCommonPositions})
InitResolver == Boot(SampleEnvs, JobSkillsCatalogs, {SampleCommonPositions})
InitSuggest == Boot(SampleEnvs, {SampleJobSkills}, PositionCatalogs)

\* ----------------------------------------------------------------- actions
\* importing main.py: read API_KEYS, raise ValueError or build VALID_API_KEYS
Startup ==
  /\ pc = "boot"
  /\ IF ConfigMissing(api_keys_env)
     THEN pc' = "failed" /\ UNCHANGED VALID_API_KEYS
     ELSE pc' = "idle" /\ VALID_API_KEYS' = ParseApiKeys(api_keys_env.value)
  /\ UNCHANGED <<api_keys_env, job_skills, common_positions, request, response>>

Serve(req, reply) ==
  /\ pc = "idle"
  /\ request' = req
  /\ response' = reply
  /\ pc' = "served"
  /\ UNCHANGED <<api_keys_env, VALID_API_KEYS, job_skills, common_positions>>

Root == \E header \in Headers : Serve(Request("/", header, <<>>, Absent), root)

HealthCheck ==
  \E header \in Headers : Serve(Request("/health", header, <<>>, Absent), health_check)

GetDocumentation ==
  \E header \in Headers, st \in AutoErrorStatuses :
    Serve(Request("/docs", header, <<>>, Absent),
          Secured(header, st, VALID_API_KEYS, get_documentation))

GetRedocDocumentation ==
  \E header \in Headers, st \in AutoErrorStatuses :
    Serve(Request("/redoc", header, <<>>, Absent),
          Secured(header, st, VALID_API_KEYS, get_redoc_documentation))

GetOpenApiEndpoint ==
  \E header \in Headers, st \in AutoErrorStatuses :
    Serve(Request("/openapi.json", header, <<>>, Absent),
          Secured(header, st, VALID_API_KEYS, get_open_api_endpoint))

GetAllPositions ==
  \E header \in Headers, st \in AutoErrorStatuses :
    Serve(Request("/api/positions", header, <<>>, Absent),
          Secured(header, st, VALID_API_KEYS, get_all_positions(common_positions)))

GetSkillsForPosition ==
  \E header \in Headers, st \in AutoErrorStatuses, position \in Positions :
    Serve(Request("/api/skills/{position}", header, position, Absent),
          Secured(header, st, VALID_API_KEYS,
                  get_skills_for_position(position, job_skills)))

GetPositionSuggestions ==
  \E header \in Headers, st \in AutoErrorStatuses, q \in Queries :
    Serve(Request("/api/suggestions", header, <<>>, q),
          Secured(header, st, VALID_API_KEYS,
                  IF QueryValid(q)
                  THEN get_position_suggestions(q.value, common_positions)
                  ELSE ValidationError))

GetJobCategories ==
  \E header \in Headers, st \in AutoErrorStatuses :
    Serve(Request("/api/categories", header, <<>>, Absent),
          Secured(header, st, VALID_API_KEYS, get_job_categories))

GetAllJobsWithSkills ==
  \E header \in Headers, st \in AutoErrorStatuses :
    Serve(Request("/api/all-jobs", header, <<>>, Absent),
          Secured(header, st, VALID_API_KEYS, get_all_jobs_with_skills(job_skills)))

\* the response is sent and the server waits for the next request
SendResponse ==
  /\ pc = "served"
  /\ pc' = "idle"
  /\ request' = NoRequest
  /\ response' = NoReply
  /\ UNCHANGED <<api_keys_env, VALID_API_KEYS, job_skills, common_positions>>

Next ==
  \/ Startup
  \/ Root
  \/ HealthCheck
  \/ GetDocumentation
  \/ GetRedocDocumentation
  \/ GetOpenApiEndpoint
  \/ GetAllPositions
  \/ GetSkillsForPosition
  \/ GetPositionSuggestions
  \/ GetJobCategories
  \/ GetAllJobsWithSkills
  \/ SendResponse

Spec == Init /\ [][Next]_vars
SpecResolver == InitResolver /\ [][Next]_vars
SpecSuggest == InitSuggest /\ [][Next]_vars

\* ================================================================== claims
Served == pc = "served"
Started == pc \in {"idle", "served"}
Protected == request.endpoint \notin {"", "/", "/health"}
HeaderValid ==
  /\ request.header.present
  /\ request.header.value # <<>>
  /\ request.header.value \in VALID_API_KEYS
Range(s) == {s[i] : i \in 1..Len(s)}
IsBlank(s) == \A i \in 1..Len(s) : s[i] \in Whitespace

\* which of the three catalog components the handler that ran belongs to
Reached ==
  IF response.handler = "get_skills_for_position" THEN {"Position Resolver"}
  ELSE IF response.handler = "get_position_suggestions" THEN {"Suggestion Engine"}
  ELSE IF response.handler \in {"get_job_categories", "get_all_jobs_with_skills"}
  THEN {"Category Index"}
  ELSE {}

\* C1: after startup, verify_api_key returns the presented credential exactly
\* when it is a non-empty string that is an element of VALID_API_KEYS (equal
\* character by character to a configured key); otherwise it raises the 401,
\* and a protected request whose credential reaches it gets that 401.
C1_VerifyIffMember ==
  Started =>
    /\ \A c \in Headers :
         verify_api_key(c, VALID_API_KEYS)
           <=> (c.present /\ c.value # <<>>
                /\ \E k \in VALID_API_KEYS :
                     Len(k) = Len(c.value) /\ \A i \in 1..Len(k) : k[i] = c.value[i])
    /\ (Served /\ Protected /\ api_key_header(request.header).ok) =>
         /\ HeaderValid <=> response.handler # "none" \/ response.status = 422
         /\ ~HeaderValid =>
              response.status = 401 /\ response.detail.text = InvalidKeyDetail

\* a credential that differs from a configured key only in case is refused
C1_Witness ==
  /\ Served /\ Protected
  /\ request.header.present
  /\ request.header.value \notin VALID_API_KEYS
  /\ \E k \in VALID_API_KEYS : Lower(k) = Lower(request.header.value)
  /\ response.status = 401
  /\ response.detail.text = InvalidKeyDetail

\* C2 as stated: a request to any endpoint other than / and /health reaches no
\* component without a valid credential and exactly one of the resolver, the
\* suggestion engine and the category index with one; / and /health succeed
\* whatever the credential.
C2_ExactlyOneComponent ==
  Served =>
    IF Protected
    THEN /\ ~HeaderValid => Reached = {} /\ response.handler = "none"
         /\ HeaderValid => Cardinality(Reached) = 1
    ELSE response.status = 200

\* C2 amended: without a valid credential no handler body runs; with one, the
\* request reaches at most one component, and exactly one when it goes to
\* /api/skills/{position}, /api/categories, /api/all-jobs or, with a non-empty
\* q, /api/suggestions; / and /health succeed whatever the credential.
C2_GateBeforeHandlers ==
  Served =>
    IF Protected
    THEN /\ ~HeaderValid => Reached = {} /\ response.handler = "none"
         /\ HeaderValid =>
              /\ Cardinality(Reached) <= 1
              /\ Cardinality(Reached) = 1 <=>
                   \/ request.endpoint \in
                        {"/api/skills/{position}", "/api/categories", "/api/all-jobs"}
                   \/ request.endpoint = "/api/suggestions" /\ QueryValid(request.q)
    ELSE response.status = 200 /\ response.handler \in {"root", "health_check"}

\* a present but invalid credential on /api/all-jobs is stopped at the gate
C2_Witness ==
  /\ Served
  /\ request.endpoint = "/api/all-jobs"
  /\ request.header.present /\ request.header.value # <<>>
  /\ VALID_API_KEYS # {}
  /\ ~HeaderValid
  /\ response.status = 401
  /\ response.handler = "none"

\* C3: a protected request whose credential is absent or not in the valid set
\* gets a 401 with the fixed detail message, the same in both cases.
C3_MissingSameAsInvalid ==
  (Served /\ Protected /\ ~HeaderValid) =>
    response.status = 401 /\ response.detail.text = InvalidKeyDetail

\* C4: the service never accepts a request when API_KEYS is absent or yields
\* zero keys after splitting, trimming and dropping empty segments.
C4_NoStartWithoutKeys ==
  (~api_keys_env.present \/ ParseApiKeys(api_keys_env.value) = {}) => ~Started

\* C5: a raw position whose lowercased, trimmed form is a catalog key gets the
\* skill list of that key and its length, with the raw string as the label,
\* whatever substring matches stand earlier in the catalog.
C5_ExactMatchFirst ==
  (/\ Served /\ request.endpoint = "/api/skills/{position}" /\ HeaderValid
   /\ \E i \in 1..Len(job_skills) : job_skills[i].key = Strip(Lower(request.position)))
  => \E i \in 1..Len(job_skills) :
       /\ job_skills[i].key = Strip(Lower(request.position))
       /\ response.status = 200
       /\ response.body.position = request.position
       /\ response.body.skills = job_skills[i].skills
       /\ response.body.skills_count = Len(job_skills[i].skills)

\* an exact match that stands after a key it contains, asked for in other case
C5_Witness ==
  /\ Served /\ request.endpoint = "/api/skills/{position}" /\ HeaderValid
  /\ \E i, j \in 1..Len(job_skills) :
       /\ j < i
       /\ job_skills[i].key = Strip(Lower(request.position))
       /\ job_skills[i].key # request.position
       /\ IsSubstring(job_skills[j].key, job_skills[i].key)
       /\ job_skills[j].skills # job_skills[i].skills
       /\ response.status = 200
       /\ response.body.skills = job_skills[i].skills

PartialHits(n) ==
  {i \in 1..Len(job_skills) :
     IsSubstring(n, job_skills[i].key) \/ IsSubstring(job_skills[i].key, n)}

\* C6: when the normalized input is no catalog key, the response carries the
\* entry of the lowest-numbered key that contains the input or is contained in
\* it, and the 404 is raised exactly when there is no such key.
C6_FirstPartialMatch ==
  (Served /\ request.endpoint = "/api/skills/{position}" /\ HeaderValid) =>
    LET n == Strip(Lower(request.position))
        hits == PartialHits(n)
    IN  /\ response.status = 404 <=> hits = {}
        /\ hits = {} =>
             response.detail.arg = request.position
        /\ (hits # {} /\ \A i \in 1..Len(job_skills) : job_skills[i].key # n) =>
             LET first == CHOOSE i \in hits : \A j \in hits : i <= j
             IN  /\ response.status = 200
                 /\ response.body.position = request.position
                 /\ response.body.skills = job_skills[first].skills
                 /\ response.body.skills_count = Len(job_skills[first].skills)

\* two keys match a non-key input and the earlier one is returned
C6_Witness ==
  /\ Served /\ request.endpoint = "/api/skills/{position}" /\ HeaderValid
  /\ LET n == Strip(Lower(request.position))
     IN  /\ \A i \in 1..Len(job_skills) : job_skills[i].key # n
         /\ n # <<>>
         /\ \E i, j \in PartialHits(n) :
              /\ i < j
              /\ job_skills[i].skills # job_skills[j].skills
              /\ response.status = 200
              /\ response.body.skills = job_skills[i].skills

MatchIndexes(q) ==
  {i \in 1..Len(common_positions) :
     IsSubstring(Lower(q), Lower(common_positions[i]))}

\* the k-th matching index, counted from the start of common_positions
NthMatch(q, k) ==
  CHOOSE i \in MatchIndexes(q) :
    Cardinality({j \in MatchIndexes(q) : j <= i}) = k

FirstMatches(q, suggestions) ==
  /\ Len(suggestions) = Min(SuggestionLimit, Cardinality(MatchIndexes(q)))
  /\ \A k \in 1..Len(suggestions) : suggestions[k] = common_positions[NthMatch(q, k)]

\* C7 as stated: for every query the handler answers, the suggestions are the
\* first 10 (or all, when fewer) names of common_positions that contain the
\* query case-insensitively, in catalog order.
C7_FirstTenForAllQueries ==
  (Served /\ response.handler = "get_position_suggestions") =>
    /\ response.status = 200
    /\ Len(response.body.suggestions) <= SuggestionLimit
    /\ FirstMatches(request.q.value, response.body.suggestions)

\* C7 amended: for every query with a character that is not whitespace, the
\* suggestions are at most 10, each contains the query case-insensitively, and
\* they are the first 10 (or all, when fewer) matching names in catalog order.
C7_FirstTenMatches ==
  (/\ Served /\ response.handler = "get_position_suggestions"
   /\ ~IsBlank(request.q.value)) =>
    /\ response.status = 200
    /\ response.body.query = request.q.value
    /\ Len(response.body.suggestions) <= SuggestionLimit
    /\ \A k \in 1..Len(response.body.suggestions) :
         IsSubstring(Lower(request.q.value), Lower(response.body.suggestions[k]))
    /\ FirstMatches(request.q.value, response.body.suggestions)

\* more than 10 names match, a name that does not match stands among them,
\* and 10 are returned
C7_Witness ==
  /\ Served /\ response.handler = "get_position_suggestions"
  /\ ~IsBlank(request.q.value)
  /\ Cardinality(MatchIndexes(request.q.value)) > SuggestionLimit
  /\ \E i \in 1..Len(common_positions) :
       /\ i \notin MatchIndexes(request.q.value)
       /\ \E j \in MatchIndexes(request.q.value) : i < j
  /\ Len(response.body.suggestions) = SuggestionLimit

MappedPositions(category) ==
  UNION {Range(category_mapping[j].positions) :
           j \in {k \in 1..Len(category_mapping) :
                    category_mapping[k].category = category}}

DisplayPositions(category) ==
  UNION {Range(categories_display[j].positions) :
           j \in {k \in 1..Len(categories_display) :
                    categories_display[k].category = category}}

\* C9: in the /api/all-jobs response a position stands under a category exactly
\* when category_mapping lists it there and it is a key of job_skills, once,
\* with the catalog's skill list; display names and positions without a
\* catalog entry never appear.
C9_AllJobsMembership ==
  (Served /\ request.endpoint = "/api/all-jobs" /\ HeaderValid) =>
    /\ response.status = 200
    /\ response.body.total_positions = Len(job_skills)
    /\ {response.body.categories[c].category :
          c \in 1..Len(response.body.categories)}
         = {category_mapping[j].category : j \in 1..Len(category_mapping)}
    /\ \A c \in 1..Len(response.body.categories) :
         LET cat == response.body.categories[c]
             listed == MappedPositions(cat.category)
         IN  /\ \A e \in 1..Len(cat.entries) :
                  /\ cat.entries[e].position \in listed
                  /\ \E i \in 1..Len(job_skills) :
                       /\ job_skills[i].key = cat.entries[e].position
                       /\ job_skills[i].skills = cat.entries[e].skills
                  /\ \A f \in 1..Len(cat.entries) :
                       cat.entries[f].position = cat.entries[e].position => f = e
             /\ \A p \in listed :
                  (\E i \in 1..Len(job_skills) : job_skills[i].key = p)
                    => \E e \in 1..Len(cat.entries) : cat.entries[e].position = p
             /\ \A p \in DisplayPositions(cat.category) \ listed :
                  \A e \in 1..Len(cat.entries) : cat.entries[e].position # p

\* one listed position is in the catalog and appears, another listed one is
\* not and is left out, and a catalog key that no category lists is left out
C9_Witness ==
  /\ Served /\ request.endpoint = "/api/all-jobs" /\ HeaderValid
  /\ response.status = 200
  /\ \E c \in 1..Len(response.body.categories) :
       LET cat == response.body.categories[c]
       IN  /\ Len(cat.entries) = 1
           /\ cat.entries[1].skills # <<>>
           /\ \E p \in MappedPositions(cat.category) :
                \A i \in 1..Len(job_skills) : job_skills[i].key # p
  /\ \E i \in 1..Len(job_skills) :
       \A j \in 1..Len(category_mapping) :
         job_skills[i].key \notin Range(category_mapping[j].positions)

\* C10: a non-empty raw position made only of whitespace, against a non-empty
\* catalog with no empty key, is never answered 404: it gets the skill list of
\* the first catalog entry.
C10_BlankPositionFirstEntry ==
  (/\ Served /\ request.endpoint = "/api/skills/{position}" /\ HeaderValid
   /\ request.position # <<>> /\ IsBlank(request.position)
   /\ Len(job_skills) >= 1
   /\ \A i \in 1..Len(job_skills) : job_skills[i].key # <<>>) =>
    /\ response.status = 200
    /\ response.body.position = request.position
    /\ response.body.skills = job_skills[1].skills
    /\ response.body.skills_count = Len(job_skills[1].skills)

\* a whitespace position against a two-entry catalog returns the first entry
C10_Witness ==
  /\ Served /\ request.endpoint = "/api/skills/{position}" /\ HeaderValid
  /\ request.position # <<>> /\ IsBlank(request.position)
  /\ Len(job_skills) >= 2
  /\ \A i \in 1..Len(job_skills) : job_skills[i].key # <<>>
  /\ job_skills[1].skills # job_skills[2].skills
  /\ response.status = 200
  /\ response.body.skills = job_skills[1].skills

====
